---------------------------- MODULE Spec2Model ----------------------------
(***************************************************************************)
(* ViewSB frontend process supervisor (ViewSBFrontendProcess) and base     *)
(* frontend runtime (ViewSBFrontend), src/viewsb/frontend.py.              *)
(*                                                                         *)
(* Two kinds of execution context are modelled: the supervisor (the        *)
(* analyzer-side caller of start / issue_packet / stop, one call at a      *)
(* time) and the subordinate processes it spawns.  They share the          *)
(* multiprocessing.Queue (input_queue) and the multiprocessing.Event       *)
(* (termination_event); every access to one of them is one atomic step.    *)
(***************************************************************************)
EXTENDS Integers, Sequences, FiniteSets, TLC

(* ------------------------------ bounds -------------------------------- *)

\* Number of subordinate processes the supervisor may spawn successfully.
MaxStarts == 2

\* Number of issue_packet calls over the whole run.
MaxPackets == 2

(* --------------------------- data units ------------------------------- *)

\* Data units are opaque values.  0 stands for the values Python treats as
\* false (0, False, "", an empty collection); 1, 2, ... for distinct values
\* it treats as true.
Packets == 0..MaxPackets

\* The data units the analyzer may pass in its k-th issue_packet call: a
\* false value, or the true value k (so that every true value in the channel
\* is told from the others).
PacketChoices(k) == {0, k}

\* Python truthiness of a data unit, as used by `while packet` and
\* `if not packet`.
Truthy(p) == p # 0

\* A Python variable that holds None is the empty sequence, one that holds
\* the value p is <<p>>.
None == <<>>

Some(p) == <<p>>

(* ----------------------------- state ---------------------------------- *)

VARIABLES
    input_queue,        \* self.input_queue: the items in the channel, head first
    termination_event,  \* self.termination_event: TRUE when set
    stdin,              \* self.stdin, the supervisor's copy: "open" | "closed"
    foreground_process, \* self.foreground_process (see NoAttribute, Unstarted)
    supPc,              \* where the supervisor is inside start() / stop()
    lastResult,         \* how the supervisor's last call ended ("pending" during one)
    procs,              \* the subordinate processes, by process number
    nprocs,             \* number of processes spawned so far
    enqueued,           \* history: every packet passed to issue_packet, in order
    hookLog,            \* history: every handle_incoming_packet call, in order
    discarded,          \* history: items removed from the channel and not dispatched
    drain,              \* history: the current handle_communications call of a sole subordinate
    stopCalls           \* history: stop() calls begun since the last start(): 0, 1, 2 (or more)

vars == << input_queue, termination_event, stdin, foreground_process, supPc,
           lastResult, procs, nprocs, enqueued, hookLog, discarded, drain,
           stopCalls >>

ProcIds == 1..MaxStarts

\* self.foreground_process before the first start(): the attribute does not exist.
NoAttribute == 0

\* self.foreground_process after a start() whose Process.start() raised: a
\* Process object that was created (line 40) and never started (line 42).
Unstarted == -1

\* A process that start() has not created yet.
NotSpawned ==
    [ pc        |-> "none",
      packet    |-> None,
      stdinArg  |-> "none",
      sys_stdin |-> "devnull",
      termCalls |-> 0,
      sawFlag   |-> FALSE ]

\* The history of a handle_communications() call: the channel as the call
\* found it (start), the packets it has dispatched (log) and the number of
\* packets issued when it began (enq).  It is kept for the calls of a
\* subordinate that is the only one spawned so far, and dropped when a second
\* one is spawned.
NoDrain == [ active |-> FALSE, start |-> <<>>, log |-> <<>>, enq |-> 0 ]

\* Program counters of a subordinate that is alive.
LivePcs == {"construct", "set_up_ipc", "run", "fetch", "handle", "terminate"}

\* Program counters inside run()'s `while not is_set()` loop: the RUNNING state.
RunningPcs == {"run", "fetch", "handle"}

Terminated(p) == p.pc \in {"exited", "crashed"}

Alive(p) == p.pc \in LivePcs

Init ==
    /\ input_queue = <<>>
    /\ termination_event = FALSE
    /\ stdin = "open"
    /\ foreground_process = NoAttribute
    /\ supPc = "idle"
    /\ lastResult = "none"
    /\ procs = [i \in ProcIds |-> NotSpawned]
    /\ nprocs = 0
    /\ enqueued = <<>>
    /\ hookLog = <<>>
    /\ discarded = <<>>
    /\ drain = [i \in ProcIds |-> NoDrain]
    /\ stopCalls = 0

(* ----------------------- IPC primitives ------------------------------- *)

\* multiprocessing.Event.clear()
EventClear(e) == FALSE

\* Faulty variant of EventSet: the event is toggled instead of set.
EventSetToggles(e) == ~e

\* multiprocessing.Event.set()
EventSet(e) == TRUE

\* Faulty variant of QueueCanPut: a queue created with maxsize=1, whose put()
\* waits while the queue holds an item.
QueueCanPutBounded(q) == Len(q) < 1

\* multiprocessing.Queue() is created without a maxsize (line 19): put()
\* finds room whatever the queue holds, and never waits for the consumer.
QueueCanPut(q) == TRUE

\* multiprocessing.Queue.put(packet): the item goes to the tail.
QueuePut(q, p) == Append(q, p)

\* Faulty variant of FileClose: the handle is left as it is.
FileCloseForgotten(f) == f

\* file.close(): closing a closed file is a no-op.
FileClose(f) == "closed"


(* ------------------- ViewSBFrontendProcess (supervisor) --------------- *)

\* The subordinate as multiprocessing.Process.start() creates it (fork): it
\* starts at _subordinate_process_entry with its own copy of the arguments,
\* the stdin object among them in the state the supervisor's copy is in;
\* multiprocessing has replaced its sys.stdin.
SpawnedProcess(handle) ==
    [ pc        |-> "construct",
      packet    |-> None,
      stdinArg  |-> handle,
      sys_stdin |-> "devnull",
      termCalls |-> 0,
      sawFlag   |-> FALSE ]

\* Faulty variant of StartClear: start() begins by emptying the channel.
StartClearFlushesQueue ==
    /\ supPc = "idle"
    /\ nprocs < MaxStarts
    /\ termination_event' = EventClear(termination_event)
    /\ input_queue' = <<>>
    /\ supPc' = "start_spawn"
    /\ lastResult' = "pending"
    /\ stopCalls' = 0
    /\ UNCHANGED << stdin, foreground_process, procs, nprocs,
                    enqueued, hookLog, discarded, drain >>

\* start(), line 34: self.termination_event.clear()
StartClear ==
    /\ supPc = "idle"
    /\ nprocs < MaxStarts
    /\ termination_event' = EventClear(termination_event)
    /\ supPc' = "start_spawn"
    /\ lastResult' = "pending"
    /\ stopCalls' = 0
    /\ UNCHANGED << input_queue, stdin, foreground_process, procs, nprocs,
                    enqueued, hookLog, discarded, drain >>

\* start(), lines 37-42: the Process object is created and started.
StartSpawn ==
    /\ supPc = "start_spawn"
    /\ nprocs' = nprocs + 1
    /\ foreground_process' = nprocs + 1
    /\ procs' = [procs EXCEPT ![nprocs + 1] = SpawnedProcess(stdin)]
    /\ supPc' = "start_close"
    /\ drain' = [i \in ProcIds |-> NoDrain]
    /\ UNCHANGED << input_queue, termination_event, stdin, lastResult,
                    enqueued, hookLog, discarded, stopCalls >>

\* Faulty variant of StartSpawnFails: line 46 placed before line 42, so that
\* the handle is already closed when Process.start() raises.
StartSpawnFailsAfterClose ==
    /\ supPc = "start_spawn"
    /\ foreground_process' = Unstarted
    /\ stdin' = FileClose(stdin)
    /\ supPc' = "idle"
    /\ lastResult' = "SpawnError"
    /\ UNCHANGED << input_queue, termination_event, procs, nprocs,
                    enqueued, hookLog, discarded, drain, stopCalls >>

\* start(), lines 40-42, when process creation fails: the attribute holds the
\* new Process object (line 40), Process.start() raises (line 42) and the
\* exception leaves start(); line 46 is not reached.
StartSpawnFails ==
    /\ supPc = "start_spawn"
    /\ foreground_process' = Unstarted
    /\ supPc' = "idle"
    /\ lastResult' = "SpawnError"
    /\ UNCHANGED << input_queue, termination_event, stdin, procs, nprocs,
                    enqueued, hookLog, discarded, drain, stopCalls >>

\* start(), line 46: self.stdin.close(), then start() returns.
StartClose ==
    /\ supPc = "start_close"
    /\ stdin' = FileClose(stdin)
    /\ supPc' = "idle"
    /\ lastResult' = "ok"
    /\ UNCHANGED << input_queue, termination_event, foreground_process, procs,
                    nprocs, enqueued, hookLog, discarded, drain, stopCalls >>

\* issue_packet(packet), line 51: self.input_queue.put(packet)
IssuePacket(packet) ==
    /\ supPc = "idle"
    /\ Len(enqueued) < MaxPackets
    /\ QueueCanPut(input_queue)
    /\ input_queue' = QueuePut(input_queue, packet)
    /\ enqueued' = Append(enqueued, packet)
    /\ lastResult' = "ok"
    /\ UNCHANGED << termination_event, stdin, foreground_process, supPc, procs,
                    nprocs, hookLog, discarded, drain, stopCalls >>

\* stop(), line 59: self.termination_event.set()
StopSet ==
    /\ supPc = "idle"
    /\ termination_event' = EventSet(termination_event)
    /\ supPc' = "stop_join"
    /\ lastResult' = "pending"
    /\ stopCalls' = IF stopCalls < 2 THEN stopCalls + 1 ELSE stopCalls
    /\ UNCHANGED << input_queue, stdin, foreground_process, procs, nprocs,
                    enqueued, hookLog, discarded, drain >>

\* Faulty variant of JoinOutcome: stop() inspects how the process ended and
\* raises for one that ended by an exception.
JoinOutcomeChecksExit(fp, ps) ==
    IF fp = NoAttribute THEN "AttributeError"
    ELSE IF fp = Unstarted THEN "AssertionError"
    ELSE IF ps[fp].pc = "crashed" THEN "ChildCrashed"
    ELSE "ok"

\* What Process.join() does for the caller once it no longer waits: the
\* attribute lookup fails before any start(); a Process that was never
\* started fails join()'s assertion; a process that has ended, by returning
\* or by an uncaught exception, is joined without error.
JoinOutcome(fp, ps) ==
    IF fp = NoAttribute THEN "AttributeError"
    ELSE IF fp = Unstarted THEN "AssertionError"
    ELSE "ok"

\* Whether join() may stop waiting.
JoinReady(fp, ps) ==
    fp \in ProcIds => Terminated(ps[fp])

\* stop(), line 60: self.foreground_process.join(), then stop() returns.
StopJoin ==
    /\ supPc = "stop_join"
    /\ JoinReady(foreground_process, procs)
    /\ lastResult' = JoinOutcome(foreground_process, procs)
    /\ supPc' = "idle"
    /\ UNCHANGED << input_queue, termination_event, stdin, foreground_process,
                    procs, nprocs, enqueued, hookLog, discarded, drain, stopCalls >>

(* ------------- _subordinate_process_entry and ViewSBFrontend ---------- *)

\* Faulty variant of RaiseTarget: run() wraps its loop in try/finally, so an
\* exception of the packet hook goes through handle_termination before it
\* leaves run().
RaiseTargetRunsCleanup(pc) == IF pc = "handle" THEN "terminate" ELSE "crashed"

\* Where an uncaught exception raised at `pc` takes the subordinate:
\* _subordinate_process_entry (lines 87-93), run() (lines 187-191) and
\* handle_communications() (lines 171-180) hold no try statement, so the
\* exception leaves them all and the process ends.
RaiseTarget(pc) == "crashed"

\* _subordinate_process_entry, line 87: frontend_class(*arguments) returns.
Construct(i) ==
    /\ procs[i].pc = "construct"
    /\ procs' = [procs EXCEPT ![i].pc = "set_up_ipc"]
    /\ UNCHANGED << input_queue, termination_event, stdin, foreground_process,
                    supPc, lastResult, nprocs, enqueued, hookLog, discarded,
                    drain, stopCalls >>

\* _subordinate_process_entry, line 87: frontend_class(*arguments) raises.
ConstructRaises(i) ==
    /\ procs[i].pc = "construct"
    /\ procs' = [procs EXCEPT ![i].pc = RaiseTarget("construct")]
    /\ UNCHANGED << input_queue, termination_event, stdin, foreground_process,
                    supPc, lastResult, nprocs, enqueued, hookLog, discarded,
                    drain, stopCalls >>

\* set_up_ipc, lines 121-125: stores the queue and the event, and installs the
\* stdin it was given as sys.stdin; then line 93 calls run().
SetUpIpc(i) ==
    /\ procs[i].pc = "set_up_ipc"
    /\ procs' = [procs EXCEPT ![i].pc = "run",
                              ![i].sys_stdin = procs[i].stdinArg]
    /\ UNCHANGED << input_queue, termination_event, stdin, foreground_process,
                    supPc, lastResult, nprocs, enqueued, hookLog, discarded,
                    drain, stopCalls >>

\* Faulty variant of RunNextPc: the loop never looks at the flag.
RunNextPcIgnoresFlag(isSet) == "fetch"

\* Faulty variant of RunNextPc: the loop test is inverted.
RunNextPcInverted(isSet) == IF isSet THEN "fetch" ELSE "terminate"

\* run(), line 187: where `while not self.termination_event.is_set()` goes
\* for the value is_set() returned.
RunNextPc(isSet) == IF isSet THEN "terminate" ELSE "fetch"

\* run(), line 187: the loop test.  When the event is clear, line 188 calls
\* handle_communications(), which sets packet = True (line 169) and enters
\* its loop (line 171).
RunTest(i) ==
    /\ procs[i].pc = "run"
    /\ procs' = [procs EXCEPT ![i].pc = RunNextPc(termination_event),
                              ![i].sawFlag = termination_event]
    /\ drain' = [drain EXCEPT ![i] =
                    IF RunNextPc(termination_event) = "fetch" /\ nprocs = 1
                    THEN [ active |-> TRUE, start |-> input_queue,
                           log |-> <<>>, enq |-> Len(enqueued) ]
                    ELSE NoDrain]
    /\ UNCHANGED << input_queue, termination_event, stdin, foreground_process,
                    supPc, lastResult, nprocs, enqueued, hookLog, discarded,
                    stopCalls >>

\* read_packet(blocking=False, timeout=0.01), line 136, inside
\* fetch_packet_from_analyzer, lines 153-159: Queue.get(False, ...) removes
\* and returns the head item, or raises queue.Empty, which is turned into
\* None.  The result is the item (or None) and the queue that is left.
FetchPacketFromAnalyzer(q) ==
    IF q = <<>>
    THEN [ packet |-> None, queue |-> q ]
    ELSE [ packet |-> Some(Head(q)), queue |-> Tail(q) ]

\* handle_communications, line 177: `if not packet` for what the fetch
\* returned: None is false, a data unit has its own truth value.
NotPacket(packet) == packet = None \/ ~Truthy(packet[1])

\* handle_communications, lines 174-178: one fetch, then either the break
\* (handle_communications returns to run()'s loop test) or the call of the
\* hook on line 180.  The local variable packet is kept only while it is
\* still read (by line 180); drain is the history of this call.
Fetch(i) ==
    /\ procs[i].pc = "fetch"
    /\ LET got == FetchPacketFromAnalyzer(input_queue)
       IN  /\ input_queue' = got.queue
           /\ IF NotPacket(got.packet)
              THEN /\ procs' = [procs EXCEPT ![i].pc = "run",
                                            ![i].packet = None]
                   /\ discarded' = IF got.packet = None
                                   THEN discarded
                                   ELSE Append(discarded, got.packet[1])
                   /\ drain' = [drain EXCEPT ![i] = NoDrain]
              ELSE /\ procs' = [procs EXCEPT ![i].pc = "handle",
                                            ![i].packet = got.packet]
                   /\ discarded' = discarded
                   /\ drain' = drain
    /\ UNCHANGED << termination_event, stdin, foreground_process, supPc,
                    lastResult, nprocs, enqueued, hookLog, stopCalls >>

\* handle_communications, line 180: self.handle_incoming_packet(packet) is
\* called and returns; the loop test on line 171 finds packet true and the
\* loop fetches again.
HandleIncomingPacket(i) ==
    /\ procs[i].pc = "handle"
    /\ hookLog' = Append(hookLog, [proc |-> i, packet |-> procs[i].packet[1]])
    /\ drain' = [drain EXCEPT ![i].log =
                    IF drain[i].active THEN Append(@, procs[i].packet[1]) ELSE @]
    /\ procs' = [procs EXCEPT ![i].pc = "fetch", ![i].packet = None]
    /\ UNCHANGED << input_queue, termination_event, stdin, foreground_process,
                    supPc, lastResult, nprocs, enqueued, discarded, stopCalls >>

\* handle_communications, line 180: the hook is called and raises.
HandleIncomingPacketRaises(i) ==
    /\ procs[i].pc = "handle"
    /\ hookLog' = Append(hookLog, [proc |-> i, packet |-> procs[i].packet[1]])
    /\ drain' = [drain EXCEPT ![i] = NoDrain]
    /\ procs' = [procs EXCEPT ![i].pc = RaiseTarget("handle"),
                              ![i].packet = None]
    /\ UNCHANGED << input_queue, termination_event, stdin, foreground_process,
                    supPc, lastResult, nprocs, enqueued, discarded, stopCalls >>

\* Faulty variant of AfterTermination: run() goes back to its loop test once
\* the cleanup hook has returned.
AfterTerminationResumes == "run"

\* run(), line 191: where run() goes once handle_termination() has returned:
\* run() returns, _subordinate_process_entry returns, the process ends.
AfterTermination == "exited"

\* run(), line 191: self.handle_termination() is called and returns.
HandleTermination(i) ==
    /\ procs[i].pc = "terminate"
    /\ procs' = [procs EXCEPT ![i].pc = AfterTermination,
                              ![i].termCalls = @ + 1]
    /\ UNCHANGED << input_queue, termination_event, stdin, foreground_process,
                    supPc, lastResult, nprocs, enqueued, hookLog, discarded,
                    drain, stopCalls >>

\* run(), line 191: self.handle_termination() is called and raises.
HandleTerminationRaises(i) ==
    /\ procs[i].pc = "terminate"
    /\ procs' = [procs EXCEPT ![i].pc = RaiseTarget("terminate"),
                              ![i].termCalls = @ + 1]
    /\ UNCHANGED << input_queue, termination_event, stdin, foreground_process,
                    supPc, lastResult, nprocs, enqueued, hookLog, discarded,
                    drain, stopCalls >>

(* --------------------------- specification ---------------------------- *)

\* One step of subordinate process i.
ProcStep(i) ==
    \/ Construct(i)
    \/ ConstructRaises(i)
    \/ SetUpIpc(i)
    \/ RunTest(i)
    \/ Fetch(i)
    \/ HandleIncomingPacket(i)
    \/ HandleIncomingPacketRaises(i)
    \/ HandleTermination(i)
    \/ HandleTerminationRaises(i)

Next ==
    \/ StartClear
    \/ StartSpawn
    \/ StartSpawnFails
    \/ StartClose
    \/ \E packet \in PacketChoices(Len(enqueued) + 1) : IssuePacket(packet)
    \/ StopSet
    \/ StopJoin
    \/ \E i \in ProcIds : ProcStep(i)

Spec == Init /\ [][Next]_vars

\* The scheduling the claims about termination assume: every subordinate
\* process that can take a step eventually takes one, and a join() whose
\* process has ended eventually returns.
FairSpec ==
    /\ Spec
    /\ \A i \in ProcIds : WF_vars(ProcStep(i))
    /\ WF_vars(StopJoin)

(* ------------------------- derived histories -------------------------- *)

\* The packets handed to handle_incoming_packet so far, in the order of the
\* calls (whichever subordinate made them).
Dispatched == [k \in 1..Len(hookLog) |-> hookLog[k].packet]

IsPrefix(a, b) == Len(a) <= Len(b) /\ a = SubSeq(b, 1, Len(a))

\* The subordinate self.foreground_process names, when it names one.
FgIsProcess == foreground_process \in ProcIds

FgTerminated == FgIsProcess /\ Terminated(procs[foreground_process])

(* -------------------------------- C1 ---------------------------------- *)

\* C1: in every reachable state the sequence of packets dispatched to
\* handle_incoming_packet so far is a prefix of the sequence passed to
\* issue_packet: same order, nothing missing in between, nothing twice.
\* Stated for a supervisor that has spawned a single subordinate, the one
\* consumer the claim speaks of.
C1_DispatchedIsPrefixOfEnqueued ==
    nprocs <= 1 => IsPrefix(Dispatched, enqueued)

(* -------------------------------- C3 ---------------------------------- *)

\* C3: handle_termination is invoked at most once per run(), only after the
\* loop test has read the termination flag as set, never while the runtime is
\* in the RUNNING loop, and exactly once by the time run() has returned.
C3_TerminationHookOnce ==
    \A i \in ProcIds :
        /\ procs[i].termCalls <= 1
        /\ procs[i].pc \in RunningPcs => procs[i].termCalls = 0
        /\ procs[i].pc = "terminate" => procs[i].sawFlag /\ procs[i].termCalls = 0
        /\ procs[i].termCalls = 1 =>
              procs[i].sawFlag /\ procs[i].pc \in {"exited", "crashed"}
        /\ procs[i].pc = "exited" => procs[i].termCalls = 1

\* C3 witness: a run() that has returned after having been in the RUNNING
\* loop long enough to dispatch a packet.
C3_Witness ==
    \E i \in ProcIds :
        /\ procs[i].pc = "exited"
        /\ procs[i].termCalls = 1
        /\ \E k \in 1..Len(hookLog) : hookLog[k].proc = i

(* -------------------------------- C4 ---------------------------------- *)

\* A handle_communications() call of process i, the only subordinate
\* spawned, returns in this step, and the supervisor has issued nothing since
\* the call began.
QuietDrainReturns(i) ==
    /\ drain[i].active
    /\ procs[i].pc = "fetch"
    /\ procs'[i].pc = "run"
    /\ drain[i].enq = Len(enqueued)

\* C4: when the supervisor issued P1..Pn before a handle_communications()
\* call and nothing during it, that one call has dispatched exactly P1..Pn,
\* in order, when it returns, and it leaves the channel empty.  Stated for a
\* supervisor that has spawned a single subordinate.
C4_OneDrainDispatchesAll ==
    [][ \A i \in ProcIds :
            (nprocs <= 1 /\ QuietDrainReturns(i)) =>
                /\ drain[i].log = drain[i].start
                /\ input_queue' = <<>> ]_vars

(* -------------------------------- C5 ---------------------------------- *)

\* C5: the termination flag never goes from set to clear while a subordinate
\* spawned by this supervisor is still running; it goes from clear to set only
\* in stop() and from set to clear only in start().
C5_FlagNeverClearedWhileRunning ==
    [][ /\ (termination_event /\ ~termination_event') =>
              /\ supPc = "idle" /\ supPc' = "start_spawn"
              /\ \A i \in ProcIds : ~Alive(procs[i])
        /\ (~termination_event /\ termination_event') =>
              supPc = "idle" /\ supPc' = "stop_join" ]_vars

(* -------------------------------- C2 ---------------------------------- *)

\* C2: once start() has spawned a subordinate, every stop() that is waiting
\* in join() for it eventually returns (fair scheduling of the subordinate,
\* hooks that return or raise), also when nothing was ever issued and the
\* flag is set before the subordinate's first loop test.
C2_StopEventuallyReturns ==
    (supPc = "stop_join" /\ FgIsProcess) ~> (supPc = "idle")

\* C2 witness: start() then stop() with no packet issued; the subordinate
\* found the flag set at its first loop test, ran its cleanup hook and ended,
\* and stop() has returned.
C2_Witness ==
    /\ supPc = "idle"
    /\ lastResult = "ok"
    /\ stopCalls = 1
    /\ enqueued = <<>>
    /\ FgIsProcess
    /\ procs[foreground_process].pc = "exited"
    /\ procs[foreground_process].termCalls = 1

(* -------------------------------- C6 ---------------------------------- *)

\* The state in which a stop() is a repeated one: the flag is already set
\* and the subordinate has already ended.
AlreadyStopped == termination_event /\ FgTerminated

\* C6: a stop() called when the flag is already set and the subordinate has
\* already ended changes neither the flag, nor the channel, nor any
\* subordinate; its join() does not have to wait, and it returns without
\* error.
C6_StopIdempotent ==
    /\ [](supPc = "stop_join" /\ FgTerminated => ENABLED StopJoin)
    /\ [][ (StopSet /\ AlreadyStopped) =>
              /\ termination_event' = termination_event
              /\ input_queue' = input_queue
              /\ procs' = procs
              /\ foreground_process' = foreground_process ]_vars
    /\ [][ (StopJoin /\ AlreadyStopped) =>
              /\ lastResult' = "ok"
              /\ termination_event' = termination_event
              /\ input_queue' = input_queue
              /\ procs' = procs
              /\ foreground_process' = foreground_process ]_vars

\* C6 witness: a second stop() since the last start() has returned without
\* error, the subordinate having ended before it was called.
C6_Witness ==
    /\ supPc = "idle"
    /\ stopCalls = 2
    /\ lastResult = "ok"
    /\ termination_event
    /\ FgTerminated

(* -------------------------------- C7 ---------------------------------- *)

InstalledOpen(i) == procs[i].sys_stdin = "open"

\* C8 as stated: in no state is the supervisor's copy open while a
\* subordinate has installed the handle as its active input stream.
C8_NeverBothHoldOpen ==
    ~(stdin = "open" /\ \E i \in ProcIds : InstalledOpen(i))

\* C8 amended: the supervisor's copy is open while a subordinate has
\* installed the handle only inside start(), between the spawn (line 42) and
\* the close (line 46); in every other state at most one of the two holds it
\* open.
C8_BothOpenOnlyInsideStart ==
    (stdin = "open" /\ \E i \in ProcIds : InstalledOpen(i))
        => supPc = "start_close"

\* C8 witness: the transfer is complete: start() has returned, the
\* supervisor's copy is closed and the subordinate reads from the handle.
C8_Witness ==
    /\ supPc = "idle"
    /\ stdin = "closed"
    /\ \E i \in ProcIds : InstalledOpen(i) /\ Alive(procs[i])

(* -------------------------------- C9 ---------------------------------- *)

\* C9: issue_packet can be called and returns in every state in which the
\* supervisor is not inside another call, whatever the flag, the
\* subordinates and the channel hold; it puts exactly its packet at the tail
\* of the channel and changes nothing else.
C9_IssuePacketFrame ==
    /\ []((supPc = "idle" /\ Len(enqueued) < MaxPackets) =>
             \A packet \in PacketChoices(Len(enqueued) + 1) :
                 ENABLED IssuePacket(packet))
    /\ [][ \A packet \in Packets :
              IssuePacket(packet) =>
                  /\ input_queue' = Append(input_queue, packet)
                  /\ termination_event' = termination_event
                  /\ procs' = procs
                  /\ stdin' = stdin
                  /\ foreground_process' = foreground_process
                  /\ supPc' = "idle"
                  /\ lastResult' = "ok" ]_vars

\* C9 witness: packets were issued with nobody taking them: the channel holds
\* two, the flag is set and the subordinate has ended without a dispatch.
C9_Witness ==
    /\ supPc = "idle"
    /\ lastResult = "ok"
    /\ Len(input_queue) = 2
    /\ input_queue = enqueued
    /\ termination_event
    /\ FgTerminated

(* -------------------------------- C10 --------------------------------- *)

\* Subordinate i ends in this step because the frontend raised.
Raises(i) ==
    \/ ConstructRaises(i)
    \/ HandleIncomingPacketRaises(i)
    \/ HandleTerminationRaises(i)

\* C10: an exception of the frontend's constructor or of a hook ends the
\* subordinate (nothing in the entry point catches it, and a crashed
\* subordinate does nothing more); a stop() whose subordinate has crashed
\* does not wait and returns without error, exactly as for a subordinate
\* that ended cleanly, changing nothing but the flag.
C10_CrashLooksLikeCleanExit ==
    /\ [][ \A i \in ProcIds :
              /\ Raises(i) => procs'[i].pc = "crashed"
              /\ procs[i].pc = "crashed" => procs'[i] = procs[i] ]_vars
    /\ [](supPc = "stop_join" /\ FgTerminated => ENABLED StopJoin)
    /\ [][ (StopJoin /\ FgTerminated) =>
              /\ lastResult' = "ok"
              /\ supPc' = "idle"
              /\ termination_event' = termination_event
              /\ input_queue' = input_queue
              /\ procs' = procs ]_vars

\* C10 witness: stop() has returned without error and the subordinate it
\* joined had crashed inside a hook.
C10_Witness ==
    /\ supPc = "idle"
    /\ lastResult = "ok"
    /\ stopCalls = 1
    /\ FgIsProcess
    /\ procs[foreground_process].pc = "crashed"
    /\ \E k \in 1..Len(hookLog) : hookLog[k].proc = foreground_process

(* -------------------------------- C11 --------------------------------- *)

\* C11 as worded: after a start() that failed to create its process, no
\* subordinate is running and the supervisor's copy of stdin is not closed.
C11_NothingRunsHandleOpenAfterFailure ==
    (supPc = "idle" /\ lastResult = "SpawnError") =>
        /\ stdin = "open"
        /\ \A i \in ProcIds : ~Alive(procs[i])

\* C11, amended: a start() whose process creation fails ends at once with the
\* spawn error, without a second attempt; that call creates no subordinate
\* and does not close the supervisor's copy of stdin, which is closed only by
\* a start() that has spawned its process.  Subordinates and handle are left
\* as they were: none running and the handle open when no earlier start()
\* succeeded.
C11_FailedStartSpawnsAndClosesNothing ==
    /\ [][ (supPc = "start_spawn" /\ supPc' # "start_spawn") =>
              \/ /\ supPc' = "start_close"
                 /\ nprocs' = nprocs + 1
              \/ /\ supPc' = "idle"
                 /\ lastResult' = "SpawnError"
                 /\ stdin' = stdin
                 /\ procs' = procs
                 /\ nprocs' = nprocs ]_vars
    /\ [][ stdin' # stdin => supPc = "start_close" ]_vars
    /\ []( (supPc = "idle" /\ lastResult = "SpawnError" /\ nprocs = 0) =>
              /\ stdin = "open"
              /\ \A i \in ProcIds : ~Alive(procs[i]) )

\* C11 witness: a start() has failed after an earlier one had succeeded; the
\* earlier subordinate is still running and the handle is closed, as the
\* earlier start() left them.
C11_Witness ==
    /\ supPc = "idle"
    /\ lastResult = "SpawnError"
    /\ foreground_process = Unstarted
    /\ nprocs = 1
    /\ Alive(procs[1])
    /\ stdin = "closed"

(* -------------------------------- C12 --------------------------------- *)

\* C12: once the supervisor has closed its copy of the stdin handle it does
\* not use it again: no subordinate is handed a closed handle (and so none
\* installs one as its sys.stdin), and the supervisor is never about to pass
\* to Process(...) or to close() a handle that is already closed.
C12_ClosedHandleNeverUsed ==
    /\ \A i \in ProcIds :
          /\ procs[i].stdinArg # "closed"
          /\ procs[i].sys_stdin # "closed"
    /\ supPc \in {"start_spawn", "start_close"} => stdin = "open"

(* -------------------------------- C13 --------------------------------- *)

\* Subordinate i has left run()'s loop, the loop test having read the flag
\* as set: it is in handle_termination, or has ended after it.
LeftLoop(i) ==
    /\ procs[i].sawFlag
    /\ procs[i].pc \in {"terminate", "exited", "crashed"}

\* The handle_incoming_packet calls subordinate i has made so far.
DispatchedBy(i) == SelectSeq(hookLog, LAMBDA e : e.proc = i)

\* C13: inside run() a runtime is either in the loop (RUNNING) or has read
\* the flag as set and left it (TERMINATED), and TERMINATED is absorbing: a
\* runtime that has left the loop stays out of it, dispatches no further
\* packet and takes nothing from the channel, whatever happens to the flag
\* afterwards (a new start() may clear it).
C13_TerminatedIsAbsorbing ==
    /\ [](\A i \in ProcIds :
             (procs[i].pc \in {"terminate", "exited"} \/ procs[i].termCalls > 0)
                => LeftLoop(i))
    /\ [][ \A i \in ProcIds :
              LeftLoop(i) =>
                 /\ LeftLoop(i)'
                 /\ procs'[i].pc \notin RunningPcs
                 /\ DispatchedBy(i)' = DispatchedBy(i)
                 /\ (procs'[i] # procs[i] => input_queue' = input_queue) ]_vars

\* C13 witness: a runtime has left the loop and ended, the flag has been
\* cleared again by a later start(), and a packet is waiting in the channel.
C13_Witness ==
    /\ LeftLoop(1)
    /\ procs[1].pc = "exited"
    /\ nprocs = 2
    /\ ~termination_event
    /\ input_queue # <<>>

(* -------------------------------- C14 --------------------------------- *)

\* C14: handle_communications passes every item it removes from the channel
\* to handle_incoming_packet, whatever its value, and returns only when a
\* fetch has found the channel empty: no removed item is dropped, and the
\* call does not end with an item it has not fetched left in the channel.
C14_RemovedItemsAreDispatched ==
    /\ [](discarded = <<>>)
    /\ [][ \A i \in ProcIds :
              (procs[i].pc = "fetch" /\ procs'[i].pc = "run") =>
                 /\ input_queue = <<>>
                 /\ input_queue' = <<>> ]_vars

(* -------------------------------- C15 --------------------------------- *)

\* A handle_communications() call of process i, the only subordinate
\* spawned, returns in this step with the termination flag set: the loop
\* test that began the call read the flag as clear, so the flag became set
\* while the runtime was inside the call, and the next thing run() does is
\* to read it and go to handle_termination.
DrainReturnsWithFlagSet(i) ==
    /\ drain[i].active
    /\ procs[i].pc = "fetch"
    /\ procs'[i].pc = "run"
    /\ termination_event

\* C15: the flag is read by run()'s loop test only, never inside
\* handle_communications: a call during which the flag became set still
\* dispatches every item the channel held when it began and every item issued
\* until it finds the channel empty, before run() reads the flag and invokes
\* handle_termination; and a call that finds an item in the channel does not
\* return to the loop test, so a runtime whose channel is never found empty
\* never reads the flag.
C15_FlagOnlyReadBetweenDrains ==
    /\ [][ \A i \in ProcIds :
              (procs'[i].sawFlag # procs[i].sawFlag \/
               (procs[i].pc # "terminate" /\ procs'[i].pc = "terminate"))
                 => procs[i].pc = "run" ]_vars
    /\ [][ \A i \in ProcIds :
              DrainReturnsWithFlagSet(i) =>
                 /\ drain[i].log = drain[i].start \o
                       SubSeq(enqueued, drain[i].enq + 1, Len(enqueued))
                 /\ input_queue = <<>> ]_vars
    /\ [][ \A i \in ProcIds :
              (procs[i].pc = "fetch" /\ input_queue # <<>> /\
               procs'[i] # procs[i])
                 => procs'[i].pc = "handle" ]_vars

(* -------------------------------- C16 --------------------------------- *)

\* stop() is waiting in join() for a subordinate that has read the flag as
\* set and left its loop.
JoinedHasLeftLoop ==
    /\ supPc = "stop_join"
    /\ FgIsProcess
    /\ LeftLoop(foreground_process)

\* C16: shutdown does not drain the channel.  A runtime that has read the
\* flag as set removes nothing more from the channel and dispatches nothing
\* more, and the packets queued when the subordinate that stop() joins read
\* the flag are still in the channel when that stop() returns: from that
\* moment to the return of stop() nothing leaves the channel.
C16_ShutdownLeavesChannelAsItIs ==
    /\ [][ \A i \in ProcIds :
              LeftLoop(i) =>
                 /\ procs'[i] # procs[i] => input_queue' = input_queue
                 /\ DispatchedBy(i)' = DispatchedBy(i) ]_vars
    /\ [][ JoinedHasLeftLoop => IsPrefix(input_queue, input_queue') ]_vars

(* -------------------------------- C17 --------------------------------- *)

\* start() has just spawned subordinate i, no other subordinate is running,
\* and the true data unit p, issued before this start(), is at the head of
\* the channel.
SpawnedWithQueued(i, p) ==
    /\ supPc = "start_close"
    /\ foreground_process = i
    /\ \A j \in ProcIds : j # i => ~Alive(procs[j])
    /\ input_queue # <<>>
    /\ Head(input_queue) = p

\* Subordinate i has passed p to handle_incoming_packet.
HasDispatched(i, p) ==
    \E k \in 1..Len(hookLog) : hookLog[k] = [proc |-> i, packet |-> p]

\* C17 as worded, for the oldest packet in the channel: a packet queued when
\* a subordinate is spawned is dispatched by that subordinate (unless its
\* frontend fails first).
C17_QueuedPacketsDispatchedByNextSubordinate ==
    \A i \in ProcIds : \A p \in 1..MaxPackets :
        SpawnedWithQueued(i, p) ~>
            (HasDispatched(i, p) \/ procs[i].pc = "crashed")

\* The channel holds the most recently issued packets, in the order of issue.
ChannelIsTailOfIssued ==
    \E n \in 0..Len(enqueued) :
        input_queue = SubSeq(enqueued, n + 1, Len(enqueued))

\* The true data units appear in s in the order of their issue (the k-th
\* issue_packet call passes k), none twice.
InIssueOrder(s) ==
    \A a, b \in 1..Len(s) :
        (a < b /\ Truthy(s[a].packet) /\ Truthy(s[b].packet))
           => s[a].packet < s[b].packet

\* C17, amended: the channel outlives subordinates and no step of start() or
\* stop() changes it; it only loses its head, to a fetch, and gains at its
\* tail, by issue_packet.  So packets issued before the first start(), and
\* packets a previous start()/stop() cycle left, are still in the channel
\* when the next subordinate is spawned, in their original order and ahead
\* of every packet issued later, and every subordinate dispatches in the
\* order of issue.  Whether the next subordinate dispatches them is not
\* settled by this: it dispatches none when its first loop test finds the
\* flag set.
C17_ChannelSurvivesStartAndStop ==
    /\ [][ supPc' # supPc => input_queue' = input_queue ]_vars
    /\ [][ input_queue' # input_queue =>
              \/ input_queue # <<>> /\ input_queue' = Tail(input_queue)
              \/ /\ Len(enqueued') = Len(enqueued) + 1
                 /\ input_queue' = Append(input_queue, enqueued'[Len(enqueued')])
         ]_vars
    /\ [](ChannelIsTailOfIssued)
    /\ [](\A i \in ProcIds : InIssueOrder(DispatchedBy(i)))

\* C17 witness: inside the second start(), so that every packet was issued
\* before it; the first subordinate ended without a dispatch and the second
\* has dispatched the two packets it found in the channel, in their order.
C17_Witness ==
    /\ supPc = "start_close"
    /\ foreground_process = 2
    /\ procs[1].pc = "exited"
    /\ hookLog = << [proc |-> 2, packet |-> 1], [proc |-> 2, packet |-> 2] >>

(* -------------------------------- C18 --------------------------------- *)

\* C18: whenever stop() returns, no subordinate spawned by this supervisor
\* is still running, whatever start() and stop() calls came before.
C18_NothingRunsWhenStopReturns ==
    [][ (supPc = "stop_join" /\ supPc' = "idle" /\ lastResult' = "ok") =>
            \A i \in ProcIds : ~Alive(procs'[i]) ]_vars

(* -------------------------------- C19 --------------------------------- *)

\* The items of sequence s.
Items(s) == { s[k] : k \in 1..Len(s) }

\* C19: when handle_incoming_packet raises, the failure leaves run() and ends
\* the subordinate without a handle_termination call, then or later; the
\* packet that was being handled had been removed from the channel by its
\* fetch, and the raise leaves the packets behind it in the channel: the
\* crashed subordinate takes and dispatches nothing more.
C19_HookFailureSkipsCleanup ==
    /\ [][ \A i \in ProcIds :
              HandleIncomingPacketRaises(i) =>
                 /\ procs'[i].pc = "crashed"
                 /\ procs[i].termCalls = 0
                 /\ procs'[i].termCalls = 0
                 /\ ~procs'[i].sawFlag
                 /\ hookLog'[Len(hookLog')] =
                       [proc |-> i, packet |-> procs[i].packet[1]]
                 /\ procs[i].packet[1] \notin Items(input_queue)
                 /\ input_queue' = input_queue ]_vars
    /\ [][ \A i \in ProcIds :
              procs[i].pc = "crashed" =>
                 /\ procs'[i] = procs[i]
                 /\ DispatchedBy(i)' = DispatchedBy(i) ]_vars
    /\ [](\A i \in ProcIds :
             (procs[i].pc = "crashed" /\ ~procs[i].sawFlag)
                => procs[i].termCalls = 0)

\* C19 witness: the hook of subordinate 1 raised on packet 1 with packet 2
\* behind it; packet 2 is still in the channel and the cleanup hook has not
\* been called.
C19_Witness ==
    /\ procs[1].pc = "crashed"
    /\ procs[1].termCalls = 0
    /\ hookLog = << [proc |-> 1, packet |-> 1] >>
    /\ input_queue = << 2 >>

=============================================================================
